---- MODULE Spec2Model ----
(***************************************************************************)
(* A model of subtitle-sink.py: the watcher that moves subtitle files out  *)
(* of a source directory into the season folder of the matching show.      *)
(*                                                                         *)
(* Strings are sequences of one-character strings, so that lower(),        *)
(* substring containment, endswith(), splitext() and the f-string of the   *)
(* fallback name are computed character by character.  A path is the       *)
(* sequence of its components; os.path.join appends a component.           *)
(***************************************************************************)
EXTENDS Integers, Sequences, FiniteSets, TLC

----------------------------------------------------------------------------
(* Characters and strings                                                  *)

UpperAlpha ==
    <<"A","B","C","D","E","F","G","H","I","J","K","L","M",
      "N","O","P","Q","R","S","T","U","V","W","X","Y","Z">>

LowerAlpha ==
    <<"a","b","c","d","e","f","g","h","i","j","k","l","m",
      "n","o","p","q","r","s","t","u","v","w","x","y","z">>

DigitChars == <<"0","1","2","3","4","5","6","7","8","9">>

\* str.lower() on one character
LowerChar(c) ==
    IF \E i \in 1..26 : UpperAlpha[i] = c
    THEN LowerAlpha[CHOOSE i \in 1..26 : UpperAlpha[i] = c]
    ELSE c

\* str.lower()
Lower(s) == [i \in 1..Len(s) |-> LowerChar(s[i])]

\* needle in hay  (Python's substring test)
Contains(needle, hay) ==
    \E i \in 0..(Len(hay) - Len(needle)) :
        SubSeq(hay, i + 1, i + Len(needle)) = needle

\* s.endswith(suf)
EndsWith(s, suf) ==
    /\ Len(suf) <= Len(s)
    /\ SubSeq(s, Len(s) - Len(suf) + 1, Len(s)) = suf

IsDigit(c) == \E i \in 1..10 : DigitChars[i] = c

DigitVal(c) == (CHOOSE i \in 1..10 : DigitChars[i] = c) - 1

\* str(n) for n >= 0
RECURSIVE Digits(_)
Digits(n) ==
    IF n < 10 THEN <<DigitChars[n + 1]>>
    ELSE Digits(n \div 10) \o <<DigitChars[(n % 10) + 1]>>

\* format(n, "02d"): at least two digits, zero padded
Pad2(n) == IF Len(Digits(n)) < 2 THEN <<"0">> \o Digits(n) ELSE Digits(n)

\* int() of a run of digits
RECURSIVE NumVal(_)
NumVal(ds) ==
    IF ds = <<>> THEN 0
    ELSE 10 * NumVal(SubSeq(ds, 1, Len(ds) - 1)) + DigitVal(ds[Len(ds)])

\* os.path.splitext on a file name: split at the last dot, unless every
\* character before that dot is a dot too
LastDot(name) ==
    IF \E i \in 1..Len(name) : name[i] = "."
    THEN CHOOSE i \in 1..Len(name) :
            /\ name[i] = "."
            /\ \A j \in (i + 1)..Len(name) : name[j] # "."
    ELSE 0

SplitAt(name, d) ==
    IF d > 0 /\ \E j \in 1..(d - 1) : name[j] # "."
    THEN <<SubSeq(name, 1, d - 1), SubSeq(name, d, Len(name))>>
    ELSE <<name, <<>>>>

splitext(name) == SplitAt(name, LastDot(name))

ExtSrt == <<".","s","r","t">>
ExtSbv == <<".","s","b","v">>
ExtSub == <<".","s","u","b">>

\* A variant of is_subtitle_file that lets every file through
AnyFile(name) == TRUE

is_subtitle_file(name) ==
    \/ EndsWith(name, ExtSrt)
    \/ EndsWith(name, ExtSbv)
    \/ EndsWith(name, ExtSub)

----------------------------------------------------------------------------
(* guessit: the external episode-identity extractor (lines 64, 109).       *)
(* It is modelled on file names of the forms the model uses:               *)
(*   <title><sep>S<nn>E<nn>...   type episode with title, season, episode  *)
(*   <title><sep>S<nn>...        type episode with title and season only   *)
(*   <title><sep>E<nn>...        type episode with title and episode only  *)
(*   anything else               type movie                                *)
(* A key whose value guessit cannot find is absent from the result.        *)

IsSep(c) == c \in {".", " ", "-", "_"}

\* length of the run of digits of s that starts at index i
RECURSIVE DigitRun(_, _)
DigitRun(s, i) ==
    IF i <= Len(s) /\ IsDigit(s[i]) THEN 1 + DigitRun(s, i + 1) ELSE 0

\* a letter c (either case) at i, at the start of a word, followed by digits
TagAt(s, i, c) ==
    /\ i <= Len(s)
    /\ LowerChar(s[i]) = c
    /\ (i = 1 \/ IsSep(s[i - 1]))
    /\ DigitRun(s, i + 1) >= 1

\* "SnnEmm" at i
FullTagAt(s, i) ==
    /\ TagAt(s, i, "s")
    /\ LET j == i + 1 + DigitRun(s, i + 1)
       IN  /\ j <= Len(s)
           /\ LowerChar(s[j]) = "e"
           /\ DigitRun(s, j + 1) >= 1

RECURSIVE StripSeps(_)
StripSeps(s) ==
    IF s = <<>> THEN s
    ELSE IF IsSep(s[Len(s)]) THEN StripSeps(SubSeq(s, 1, Len(s) - 1))
    ELSE IF IsSep(s[1]) THEN StripSeps(Tail(s))
    ELSE s

\* the "title" key: the words before the tag, when there are any
TitleOf(t) == IF t = <<>> THEN <<>> ELSE <<t>>

TitleKey(s, i) == TitleOf(StripSeps(SubSeq(s, 1, i - 1)))

\* the index of the first tag of a kind, or 0
FirstOf(S) == IF S = {} THEN 0 ELSE CHOOSE i \in S : \A j \in S : i <= j

FullPos(s) == FirstOf({i \in 1..Len(s) : FullTagAt(s, i)})

TagPos(s, c) == FirstOf({i \in 1..Len(s) : TagAt(s, i, c)})

\* the number written after the tag letter at i
TagNum(s, i) == NumVal(SubSeq(s, i + 1, i + DigitRun(s, i + 1)))

\* The result as a record of optional keys: title, season and episode are
\* sequences of length 0 (key absent) or 1 (key present).
Guessed(s, full, seas, epis) ==
    IF full > 0 THEN
        [type    |-> "episode",
         title   |-> TitleKey(s, full),
         season  |-> <<TagNum(s, full)>>,
         episode |-> <<TagNum(s, full + 1 + DigitRun(s, full + 1))>>]
    ELSE IF seas > 0 THEN
        [type    |-> "episode",
         title   |-> TitleKey(s, seas),
         season  |-> <<TagNum(s, seas)>>,
         episode |-> <<>>]
    ELSE IF epis > 0 THEN
        [type    |-> "episode",
         title   |-> TitleKey(s, epis),
         season  |-> <<>>,
         episode |-> <<TagNum(s, epis)>>]
    ELSE
        [type    |-> "movie",
         title   |-> TitleOf(StripSeps(splitext(s)[1])),
         season  |-> <<>>,
         episode |-> <<>>]

guessit(s) == Guessed(s, FullPos(s), TagPos(s, "s"), TagPos(s, "e"))

\* match[key]: KeyError when the key is absent
HasKey(m, k) == m[k] # <<>>

----------------------------------------------------------------------------
(* detect_tv_episode_info                                                  *)

NoInfo == [kind |-> "none", title |-> <<>>, season |-> 0, episode |-> 0]

\* A variant of Detected without the test of match["type"]
DetectedAnyType(match) ==
    IF ~ (HasKey(match, "title") /\ HasKey(match, "season")
            /\ HasKey(match, "episode"))
    THEN [NoInfo EXCEPT !.kind = "KeyError"]
    ELSE [kind    |-> "ok",
          title   |-> match.title[1],
          season  |-> match.season[1],
          episode |-> match.episode[1]]

Detected(match) ==
    IF match.type # "episode" THEN NoInfo
    ELSE IF ~ (HasKey(match, "title") /\ HasKey(match, "season")
                 /\ HasKey(match, "episode"))
    THEN [NoInfo EXCEPT !.kind = "KeyError"]
    ELSE [kind    |-> "ok",
          title   |-> match.title[1],
          season  |-> match.season[1],
          episode |-> match.episode[1]]

detect_tv_episode_info(name) == Detected(guessit(name))

----------------------------------------------------------------------------
(* The files of the model                                                  *)

SShow   == <<"S","h","o","w">>
SOther  == <<"O","t","h","e","r">>
SDash   == <<" ","-"," ">>
SS02E05 == <<"S","0","2","E","0","5">>
ExtMkv  == <<".","m","k","v">>

\* Names that can appear in SourceDir
SrcA == Lower(SShow) \o <<".">> \o Lower(SS02E05) \o ExtSrt     \* show.s02e05.srt
SrcB == SShow \o <<".">> \o SS02E05 \o ExtSrt                   \* Show.S02E05.srt
SrcC == Lower(SShow) \o <<".","s","0","3","e","0","7">> \o ExtSub  \* show.s03e07.sub
SrcE == Lower(SOther) \o <<".","s","0","1","e","0","1">> \o ExtSrt \* other.s01e01.srt
SrcF == <<"m","o","v","i","e">> \o ExtSrt                       \* movie.srt
SrcG == Lower(SShow) \o <<".","e","0","5">> \o ExtSrt           \* show.e05.srt
SrcH == Lower(SShow) \o <<".">> \o Lower(SS02E05) \o <<".","t","x","t">> \* show.s02e05.txt

SrcNames == {SrcA, SrcB, SrcC, SrcE, SrcF, SrcG, SrcH}

\* Entries that can lie in a season directory before the program runs
VidE5    == SShow \o SDash \o SS02E05 \o ExtMkv                 \* Show - S02E05.mkv
VidE6    == SShow \o SDash \o <<"S","0","2","E","0","6">> \o ExtMkv  \* Show - S02E06.mkv
OldSubE5 == SShow \o SDash \o SS02E05 \o <<".","e","n">> \o ExtSrt  \* Show - S02E05.en.srt
NoSeason == SShow \o SDash \o <<"E","0","5">> \o ExtMkv         \* Show - E05.mkv

VideoExts == {ExtMkv, <<".","a","v","i">>, <<".","m","p","4">>}

IsVideo(name) == \E e \in VideoExts : EndsWith(name, e)

VideoContent == <<"v","i","d","e","o">>

Entry(n) == [name |-> n, content |-> VideoContent]

\* The library roots and what lies directly under each (os.listdir order)
Lib1 == <<"/","l","i","b","1">>
Lib2 == <<"/","l","i","b","2">>

Roots == {Lib1, Lib2}

TheShow  == <<"T","h","e"," ">> \o SShow \o <<" ","(","2","0","1","9",")">>
ShowTxt  == SShow \o <<"t","i","m","e",".","t","x","t">>
OtherTwo == SOther \o <<" ","T","w","o">>

LibEntries(root) ==
    IF root = Lib1
    THEN << [name |-> TheShow, isdir |-> TRUE],
            [name |-> ShowTxt, isdir |-> FALSE],
            [name |-> SOther,  isdir |-> TRUE] >>
    ELSE << [name |-> OtherTwo, isdir |-> TRUE] >>

\* "Season {nr}".format(nr=season), the default SeasonFormat
SeasonFormat(nr) == <<"S","e","a","s","o","n"," ">> \o Digits(nr)

\* The season directories of the library
SeasonDirs ==
    { <<Lib1, TheShow, SeasonFormat(2)>>, <<Lib1, TheShow, SeasonFormat(3)>> }

\* /lib1/Other/Season 1 is a regular file; "/lib2/Other Two" holds nothing
PlainFiles == { <<Lib1, SOther, SeasonFormat(1)>> }

\* What Season 2 of the show may hold at the start
SeasonListings ==
    { <<>>,
      <<Entry(VidE6), Entry(VidE5)>>,
      <<[name |-> OldSubE5, content |-> OldSubE5], Entry(VidE5)>>,
      <<Entry(NoSeason)>>,
      <<Entry(NoSeason), Entry(VidE5)>> }

----------------------------------------------------------------------------
(* Bounds of the model                                                     *)

MaxTVDirs   == 2    \* entries of the TVDirs key
MaxSrc      == 1    \* files in SourceDir when the program starts
MaxArrivals == 1    \* files that arrive in SourceDir while it runs

Threads == {"main", "obs"}

VARIABLES
    tvDirsCfg,        \* the TVDirs key of the open config file, split at ","
    sourceDirExists,  \* whether cfg.SourceDir is an existing directory
    rootExists,       \* which library roots exist
    src,              \* the names of the files in SourceDir
    dirs,             \* season directory -> its entries, in os.listdir order
    cfg,              \* Config.TVDirs as load_config returned it
    pc,               \* where each thread is
    sweepList,        \* full_process: the entries of os.listdir still to visit
    queue,            \* the observer's queue of created/modified events
    cur,              \* per thread: the process_subtitle_file call under way
    last,             \* the path and outcome of the latest call
    arrivals          \* files that have arrived so far

vars == <<tvDirsCfg, sourceDirExists, rootExists, src, dirs, cfg, pc,
          sweepList, queue, cur, last, arrivals>>

----------------------------------------------------------------------------
(* load_config: the TVDirs entries that exist, in their order              *)

\* A variant of valid_tv_dirs that keeps every entry
AllTVDirs(tv_dirs) == tv_dirs

valid_tv_dirs(tv_dirs) ==
    LET exists(d) == rootExists[d]
    IN  SelectSeq(tv_dirs, exists)

----------------------------------------------------------------------------
(* find_show_directory                                                     *)

\* the matches one library root adds, in listing order
RootMatches(tv_dir, title) ==
    LET hit(e) == e.isdir /\ Contains(Lower(title), Lower(e.name))
        subs   == SelectSeq(LibEntries(tv_dir), hit)
    IN  [i \in 1..Len(subs) |-> <<tv_dir, subs[i].name>>]

RECURSIVE Matches(_, _)
Matches(tv_dirs, title) ==
    IF tv_dirs = <<>> THEN <<>>
    ELSE RootMatches(Head(tv_dirs), title) \o Matches(Tail(tv_dirs), title)

\* lines 91-102: one match is the answer, none or several are not
Picked(matches) ==
    IF Len(matches) = 1 THEN [kind |-> "ok", path |-> matches[1]]
    ELSE IF Len(matches) > 1 THEN [kind |-> "ambiguous", path |-> <<>>]
    ELSE [kind |-> "none", path |-> <<>>]

find_show_directory(tv_dirs, title) ==
    IF \E i \in 1..Len(tv_dirs) : ~ rootExists[tv_dirs[i]]
    THEN [kind |-> "OSError", path |-> <<>>]      \* os.listdir raises
    ELSE Picked(Matches(tv_dirs, title))

----------------------------------------------------------------------------
(* find_episode_file                                                       *)

FallbackName(title, season, episode) ==
    title \o <<" ","-"," ","S">> \o Pad2(season) \o <<"E">> \o Pad2(episode)
          \o ExtMkv

\* lines 111-115 on one entry: "exact", "next", or "KeyError"
Compared(match, season, episode) ==
    IF match.type # "episode" THEN "next"
    ELSE IF ~ HasKey(match, "season") THEN "KeyError"
    ELSE IF match.season[1] # season THEN "next"
    ELSE IF ~ HasKey(match, "episode") THEN "KeyError"
    ELSE IF match.episode[1] # episode THEN "next"
    ELSE "exact"

\* the loop over os.listdir(season_directory), from entry i on
RECURSIVE ScanEpisodes(_, _, _, _)
ScanEpisodes(listing, i, season, episode) ==
    IF i > Len(listing) THEN [kind |-> "fallback", name |-> <<>>]
    ELSE CASE Compared(guessit(listing[i].name), season, episode) = "exact"
                -> [kind |-> "exact", name |-> listing[i].name]
           [] Compared(guessit(listing[i].name), season, episode) = "KeyError"
                -> [kind |-> "KeyError", name |-> <<>>]
           [] OTHER -> ScanEpisodes(listing, i + 1, season, episode)

Found(scan, title, season, episode) ==
    IF scan.kind = "fallback"
    THEN [scan EXCEPT !.name = FallbackName(title, season, episode)]
    ELSE scan

find_episode_file(listing, title, season, episode) ==
    Found(ScanEpisodes(listing, 1, season, episode), title, season, episode)

----------------------------------------------------------------------------
(* process_subtitle_file, up to the copy: what it decides to do           *)

\* line 138: os.path.exists and os.path.isdir of the season directory
PathExists(path) == path \in SeasonDirs \cup PlainFiles /\ rootExists[path[1]]

IsSeasonDir(path) == path \in SeasonDirs /\ rootExists[path[1]]

NoPlan == [outcome |-> "none", dir |-> <<>>, name |-> <<>>, conf |-> "none"]

\* lines 147-150: the target name and directory
PlanTarget(subtitle, season_directory, found) ==
    IF found.kind = "KeyError" THEN [NoPlan EXCEPT !.outcome = "KeyError"]
    ELSE [outcome |-> "copy",
          dir     |-> season_directory,
          name    |-> splitext(found.name)[1] \o splitext(subtitle)[2],
          conf    |-> found.kind]

\* A variant of PlanSeason without the test of the season directory
PlanSeasonNoCheck(subtitle, tv_info, season_directory) ==
    PlanTarget(subtitle, season_directory,
        find_episode_file(IF season_directory \in SeasonDirs
                          THEN dirs[season_directory] ELSE <<>>,
                          tv_info.title, tv_info.season, tv_info.episode))

\* lines 138-146: the season directory must be a directory
PlanSeason(subtitle, tv_info, season_directory) ==
    IF ~ PathExists(season_directory) \/ ~ IsSeasonDir(season_directory)
    THEN [NoPlan EXCEPT !.outcome = "skip_season_missing"]
    ELSE PlanTarget(subtitle, season_directory,
             find_episode_file(dirs[season_directory], tv_info.title,
                               tv_info.season, tv_info.episode))

\* lines 129-136: the show directory
PlanShow(subtitle, tv_info, show_directory) ==
    CASE show_directory.kind = "OSError" -> [NoPlan EXCEPT !.outcome = "OSError"]
      [] show_directory.kind = "none" -> [NoPlan EXCEPT !.outcome = "skip_no_dir"]
      [] show_directory.kind = "ambiguous"
            -> [NoPlan EXCEPT !.outcome = "skip_ambiguous"]
      [] OTHER -> PlanSeason(subtitle, tv_info,
                      Append(show_directory.path, SeasonFormat(tv_info.season)))

\* lines 123-126: the episode identity
PlanInfo(subtitle, tv_info) ==
    CASE tv_info.kind = "none" -> [NoPlan EXCEPT !.outcome = "skip_not_episode"]
      [] tv_info.kind = "KeyError" -> [NoPlan EXCEPT !.outcome = "KeyError"]
      [] OTHER -> PlanShow(subtitle, tv_info,
                      find_show_directory(cfg, tv_info.title))

Plan(subtitle) == PlanInfo(subtitle, detect_tv_episode_info(subtitle))

----------------------------------------------------------------------------
(* The state at the start                                                  *)

NoCall == [path |-> <<>>, dir |-> <<>>, name |-> <<>>, conf |-> "none",
           ret |-> "none"]

NoOutcome == [path |-> <<>>, outcome |-> "none"]

\* TVDirs values: up to MaxTVDirs roots, a root may be listed twice
TVDirsChoices ==
    UNION { [1..n -> Roots] : n \in 0..MaxTVDirs }

SrcChoices == { S \in SUBSET SrcNames : Cardinality(S) <= MaxSrc }

Season2 == <<Lib1, TheShow, SeasonFormat(2)>>

InitFiles ==
    /\ rootExists \in [Roots -> BOOLEAN]
    /\ sourceDirExists \in BOOLEAN
    /\ src \in IF sourceDirExists THEN SrcChoices ELSE {{}}
    /\ \E listing \in IF rootExists[Lib1] THEN SeasonListings ELSE {<<>>} :
           dirs = [d \in SeasonDirs |-> IF d = Season2 THEN listing ELSE <<>>]
    /\ sweepList = <<>>
    /\ queue = <<>>
    /\ cur = [t \in Threads |-> NoCall]
    /\ last = NoOutcome
    /\ arrivals = 0

Init ==
    /\ InitFiles
    /\ tvDirsCfg \in TVDirsChoices
    /\ cfg = <<>>
    /\ pc = [t \in Threads |-> IF t = "main" THEN "load" ELSE "off"]

----------------------------------------------------------------------------
(* process_subtitle_file, step by step, on thread t                        *)

\* The outcomes that are exceptions
Errors == {"KeyError", "OSError"}

\* Where an exception that leaves process_subtitle_file ends up: nothing in
\* full_process or main catches it, so the sweep ends the program with a
\* traceback; in the observer's thread it ends that thread.
AfterRaise(ret) ==
    CASE ret = "sweep" -> "crashed"
      [] ret = "idle"  -> "dead"
      [] OTHER         -> ret

\* lines 123-154: decide, and stop early on a skip
Started(t, path, ret, plan) ==
    /\ pc' = [pc EXCEPT ![t] =
                CASE plan.outcome = "copy"  -> "copy"
                  [] plan.outcome \in Errors -> AfterRaise(ret)
                  [] OTHER                  -> ret]
    /\ cur' = [cur EXCEPT ![t] =
                IF plan.outcome = "copy"
                THEN [path |-> path, dir |-> plan.dir, name |-> plan.name,
                      conf |-> plan.conf, ret |-> ret]
                ELSE NoCall]
    /\ last' = [path    |-> path,
                outcome |-> IF plan.outcome = "copy" THEN "started"
                            ELSE plan.outcome]

Begin(t, path, ret) == Started(t, path, ret, Plan(path))

\* A variant of Written where the new file is all the directory holds
WrittenAlone(listing, name, content, k) ==
    <<[name |-> name, content |-> content]>>

\* A variant of Written that leaves a file that is already there as it is
WrittenUnlessThere(listing, name, content, k) ==
    IF \E i \in 1..Len(listing) : listing[i].name = name
    THEN listing
    ELSE SubSeq(listing, 1, k) \o <<[name |-> name, content |-> content]>>
            \o SubSeq(listing, k + 1, Len(listing))

\* the listing of a directory after a file is written into it: an existing
\* entry of that name is overwritten in place, a new one shows up after the
\* first k entries (the model puts it first or last)
Written(listing, name, content, k) ==
    IF \E i \in 1..Len(listing) : listing[i].name = name
    THEN [i \in 1..Len(listing) |->
            IF listing[i].name = name
            THEN [name |-> name, content |-> content] ELSE listing[i]]
    ELSE SubSeq(listing, 1, k) \o <<[name |-> name, content |-> content]>>
            \o SubSeq(listing, k + 1, Len(listing))

\* A variant of Copy that removes the source before copying it
CopyUnlinkFirst(t) ==
    /\ pc[t] = "copy"
    /\ \E ok \in BOOLEAN, k \in {0, Len(dirs[cur[t].dir])} :
        IF cur[t].path \notin src \/ ~ ok \/ ~ IsSeasonDir(cur[t].dir)
        THEN /\ pc' = [pc EXCEPT ![t] = AfterRaise(cur[t].ret)]
             /\ last' = [path |-> cur[t].path, outcome |-> "OSError"]
             /\ cur' = [cur EXCEPT ![t] = NoCall]
             /\ src' = src \ {cur[t].path}
             /\ UNCHANGED dirs
        ELSE /\ dirs' = [dirs EXCEPT ![cur[t].dir] =
                            Written(@, cur[t].name, cur[t].path, k)]
             /\ src' = src \ {cur[t].path}
             /\ pc' = [pc EXCEPT ![t] = "unlink"]
             /\ UNCHANGED <<cur, last>>
    /\ UNCHANGED <<tvDirsCfg, sourceDirExists, rootExists, cfg, sweepList,
                   queue, arrivals>>

\* line 157, shutil.copy(subtitle_path, target_path): it raises when the
\* source is gone or the target cannot be written (ok = FALSE)
Copy(t) ==
    /\ pc[t] = "copy"
    /\ \E ok \in BOOLEAN, k \in {0, Len(dirs[cur[t].dir])} :
        IF cur[t].path \notin src \/ ~ ok \/ ~ IsSeasonDir(cur[t].dir)
        THEN /\ pc' = [pc EXCEPT ![t] = AfterRaise(cur[t].ret)]
             /\ last' = [path |-> cur[t].path, outcome |-> "OSError"]
             /\ cur' = [cur EXCEPT ![t] = NoCall]
             /\ UNCHANGED dirs
        ELSE /\ dirs' = [dirs EXCEPT ![cur[t].dir] =
                            Written(@, cur[t].name, cur[t].path, k)]
             /\ pc' = [pc EXCEPT ![t] = "unlink"]
             /\ UNCHANGED <<cur, last>>
    /\ UNCHANGED <<tvDirsCfg, sourceDirExists, rootExists, src, cfg, sweepList,
                   queue, arrivals>>

\* A variant of Unlink that leaves the source file where it is
UnlinkKeepsSource(t) ==
    /\ pc[t] = "unlink"
    /\ pc' = [pc EXCEPT ![t] = cur[t].ret]
    /\ last' = [path |-> cur[t].path, outcome |-> "placed"]
    /\ cur' = [cur EXCEPT ![t] = NoCall]
    /\ UNCHANGED <<tvDirsCfg, sourceDirExists, rootExists, src, dirs, cfg,
                   sweepList, queue, arrivals>>

\* line 160, os.unlink(subtitle_path): it raises when the source is gone
Unlink(t) ==
    /\ pc[t] = "unlink"
    /\ IF cur[t].path \notin src
       THEN /\ pc' = [pc EXCEPT ![t] = AfterRaise(cur[t].ret)]
            /\ last' = [path |-> cur[t].path, outcome |-> "OSError"]
            /\ UNCHANGED src
       ELSE /\ src' = src \ {cur[t].path}
            /\ pc' = [pc EXCEPT ![t] = cur[t].ret]
            /\ last' = [path |-> cur[t].path, outcome |-> "placed"]
    /\ cur' = [cur EXCEPT ![t] = NoCall]
    /\ UNCHANGED <<tvDirsCfg, sourceDirExists, rootExists, dirs, cfg, sweepList,
                   queue, arrivals>>

\* A variant of HandlerProcess without the os.path.exists test
HandlerProcessNoCheck(t, path, ret) ==
    IF ~ is_subtitle_file(path)
    THEN /\ last' = [path |-> path, outcome |-> "filtered"]
         /\ pc' = [pc EXCEPT ![t] = ret]
         /\ UNCHANGED cur
    ELSE Begin(t, path, ret)

\* SubtitleFileEventHandler.process for a created or modified event
HandlerProcess(t, path, ret) ==
    IF path \notin src
    THEN /\ last' = [path |-> path, outcome |-> "ignored"]
         /\ pc' = [pc EXCEPT ![t] = ret]
         /\ UNCHANGED cur
    ELSE IF ~ is_subtitle_file(path)
    THEN /\ last' = [path |-> path, outcome |-> "filtered"]
         /\ pc' = [pc EXCEPT ![t] = ret]
         /\ UNCHANGED cur
    ELSE Begin(t, path, ret)

----------------------------------------------------------------------------
(* main: load the configuration, sweep SourceDir, then watch it            *)

\* lines 228-229 with load_config (lines 36-58): an empty TVDirs key raises;
\* entries that do not exist are dropped, the file itself stays as it is
LoadConfig ==
    /\ pc["main"] = "load"
    /\ IF tvDirsCfg = <<>>
       THEN /\ pc' = [pc EXCEPT !["main"] = "config_error"]
            /\ UNCHANGED cfg
       ELSE /\ cfg' = valid_tv_dirs(tvDirsCfg)
            /\ pc' = [pc EXCEPT !["main"] = "check"]
    /\ UNCHANGED tvDirsCfg
    /\ UNCHANGED <<sourceDirExists, rootExists, src, dirs, sweepList,
                   queue, cur, last, arrivals>>

\* the orders in which os.listdir can return the files of a directory
Listings(S) ==
    { f \in [1..Cardinality(S) -> S] :
        \A i, j \in 1..Cardinality(S) : i # j => f[i] # f[j] }

\* A variant of CheckSourceDir that starts the observer before the sweep
CheckSourceDirObserverFirst ==
    /\ pc["main"] = "check"
    /\ IF ~ sourceDirExists
       THEN /\ pc' = [pc EXCEPT !["main"] = "exit1"]
            /\ UNCHANGED sweepList
       ELSE /\ sweepList' \in Listings(src)
            /\ pc' = [pc EXCEPT !["main"] = "sweep", !["obs"] = "idle"]
    /\ UNCHANGED <<tvDirsCfg, sourceDirExists, rootExists, src, dirs, cfg,
                   queue, cur, last, arrivals>>

\* A variant of CheckSourceDir that goes on without SourceDir
CheckSourceDirNoReturn ==
    /\ pc["main"] = "check"
    /\ sweepList' \in Listings(src)
    /\ pc' = [pc EXCEPT !["main"] = "sweep"]
    /\ UNCHANGED <<tvDirsCfg, sourceDirExists, rootExists, src, dirs, cfg,
                   queue, cur, last, arrivals>>

\* lines 238-242 and line 199: return 1 without SourceDir, else list it
CheckSourceDir ==
    /\ pc["main"] = "check"
    /\ IF ~ sourceDirExists
       THEN /\ pc' = [pc EXCEPT !["main"] = "exit1"]
            /\ UNCHANGED sweepList
       ELSE /\ sweepList' \in Listings(src)
            /\ pc' = [pc EXCEPT !["main"] = "sweep"]
    /\ UNCHANGED <<tvDirsCfg, sourceDirExists, rootExists, src, dirs, cfg,
                   queue, cur, last, arrivals>>

\* one turn of the loop of full_process (lines 199-205)
SweepNext ==
    /\ pc["main"] = "sweep"
    /\ sweepList # <<>>
    /\ sweepList' = Tail(sweepList)
    /\ IF ~ is_subtitle_file(Head(sweepList))
       THEN /\ last' = [path |-> Head(sweepList), outcome |-> "filtered"]
            /\ UNCHANGED <<pc, cur>>
       ELSE Begin("main", Head(sweepList), "sweep")
    /\ UNCHANGED <<tvDirsCfg, sourceDirExists, rootExists, src, dirs, cfg,
                   queue, arrivals>>

\* lines 244-250: after the sweep, start the observer and sleep
StartObserver ==
    /\ pc["main"] = "sweep"
    /\ sweepList = <<>>
    /\ pc' = [pc EXCEPT !["main"] = "sleep", !["obs"] = "idle"]
    /\ UNCHANGED <<tvDirsCfg, sourceDirExists, rootExists, src, dirs, cfg,
                   sweepList, queue, cur, last, arrivals>>

\* the observer's thread takes the next event to on_created / on_modified
Dispatch ==
    /\ pc["obs"] = "idle"
    /\ queue # <<>>
    /\ queue' = Tail(queue)
    /\ HandlerProcess("obs", Head(queue), "idle")
    /\ UNCHANGED <<tvDirsCfg, sourceDirExists, rootExists, src, dirs, cfg,
                   sweepList, arrivals>>

\* lines 248-254: a termination signal interrupts sleep(1); the finally block
\* stops the observer, joins it (a handler under way runs to its end first,
\* events still queued are dropped) and returns 0
Shutdown ==
    /\ pc["main"] = "sleep"
    /\ pc["obs"] \in {"idle", "dead"}
    /\ pc' = [pc EXCEPT !["main"] = "exit0", !["obs"] = "stopped"]
    /\ queue' = <<>>
    /\ UNCHANGED <<tvDirsCfg, sourceDirExists, rootExists, src, dirs, cfg,
                   sweepList, cur, last, arrivals>>

----------------------------------------------------------------------------
(* Other processes                                                         *)

Running == pc["main"] \in {"sweep", "copy", "unlink", "sleep"}

Watching == pc["obs"] \in {"idle", "copy", "unlink"}

InQueue(n) == \E i \in 1..Len(queue) : queue[i] = n

\* a new file lands in the watched SourceDir: a created event is queued
Arrive(n) ==
    /\ Running
    /\ Watching
    /\ n \notin src
    /\ arrivals < MaxArrivals
    /\ src' = src \cup {n}
    /\ arrivals' = arrivals + 1
    /\ queue' = Append(queue, n)
    /\ UNCHANGED <<tvDirsCfg, sourceDirExists, rootExists, dirs, cfg, pc,
                   sweepList, cur, last>>

\* a file of SourceDir is written to again: a modified event is queued
\* (the model queues one only while no event for the file is waiting)
Notify(n) ==
    /\ Running
    /\ Watching
    /\ n \in src
    /\ ~ InQueue(n)
    /\ queue' = Append(queue, n)
    /\ UNCHANGED <<tvDirsCfg, sourceDirExists, rootExists, src, dirs, cfg, pc,
                   sweepList, cur, last, arrivals>>

Pending(n) ==
    \/ \E i \in 1..Len(sweepList) : sweepList[i] = n
    \/ InQueue(n)
    \/ \E t \in Threads : cur[t].path = n

\* another process removes a file the program has yet to handle
Vanish(n) ==
    /\ Running
    /\ n \in src
    /\ Pending(n)
    /\ src' = src \ {n}
    /\ UNCHANGED <<tvDirsCfg, sourceDirExists, rootExists, dirs, cfg, pc,
                   sweepList, queue, cur, last, arrivals>>

\* another process removes a configured library root, with all it holds,
\* while the program runs
RootVanish(r) ==
    /\ Running
    /\ rootExists[r]
    /\ \E i \in 1..Len(cfg) : cfg[i] = r
    /\ rootExists' = [rootExists EXCEPT ![r] = FALSE]
    /\ dirs' = [d \in SeasonDirs |-> IF d[1] = r THEN <<>> ELSE dirs[d]]
    /\ UNCHANGED <<tvDirsCfg, sourceDirExists, src, cfg, pc, sweepList, queue,
                   cur, last, arrivals>>

----------------------------------------------------------------------------
Next ==
    \/ LoadConfig
    \/ CheckSourceDir
    \/ SweepNext
    \/ StartObserver
    \/ Dispatch
    \/ \E t \in Threads : Copy(t)
    \/ \E t \in Threads : Unlink(t)
    \/ Shutdown
    \/ \E n \in SrcNames : Arrive(n)
    \/ \E n \in SrcNames : Notify(n)
    \/ \E n \in SrcNames : Vanish(n)
    \/ \E r \in Roots : RootVanish(r)

Spec == Init /\ [][Next]_vars

----------------------------------------------------------------------------
(* The placement engine on its own: a caller that holds a loaded           *)
(* configuration and calls process_subtitle_file, or the event handler,    *)
(* with one path after another, and survives their exceptions.             *)

InitCore ==
    /\ InitFiles
    /\ tvDirsCfg = <<>>
    /\ \E tv_dirs \in TVDirsChoices : cfg = valid_tv_dirs(tv_dirs)
    /\ pc = [t \in Threads |-> IF t = "main" THEN "driver" ELSE "off"]

CallProcess(path) ==
    /\ pc["main"] = "driver"
    /\ Begin("main", path, "driver")
    /\ UNCHANGED <<tvDirsCfg, sourceDirExists, rootExists, src, dirs, cfg,
                   sweepList, queue, arrivals>>

CallHandler(path) ==
    /\ pc["main"] = "driver"
    /\ HandlerProcess("main", path, "driver")
    /\ UNCHANGED <<tvDirsCfg, sourceDirExists, rootExists, src, dirs, cfg,
                   sweepList, queue, arrivals>>

NextCore ==
    \/ \E path \in SrcNames : CallProcess(path)
    \/ \E path \in SrcNames : CallHandler(path)
    \/ Copy("main")
    \/ Unlink("main")

SpecCore == InitCore /\ [][NextCore]_vars

----------------------------------------------------------------------------
(* Properties                                                              *)

\* a copy of source file p lies in the library
PlacedInLibrary(p) ==
    \E d \in SeasonDirs : \E i \in 1..Len(dirs[d]) : dirs[d][i].content = p

\* the file a call is to write lies at its target
HasCopy(c) ==
    \E i \in 1..Len(dirs[c.dir]) :
        dirs[c.dir][i] = [name |-> c.name, content |-> c.path]

\* a step of another process, not of the program
OtherProcessStep == UNCHANGED <<pc, cur, last>>

\* C1: the program removes a source file only in the unlink step of a call
\* whose copy lies at the target (unless another process has removed the
\* library root since the copy); and when the copy step fails the call ends
\* with the exception as its outcome and the source directory as it was.
C1_CopyBeforeDelete ==
    [][ /\ \A n \in SrcNames :
              (n \in src /\ n \notin src') =>
                  \/ OtherProcessStep
                  \/ \E t \in Threads :
                        /\ pc[t] = "unlink" /\ cur[t].path = n
                        /\ HasCopy(cur[t]) \/ ~ rootExists[cur[t].dir[1]]
        /\ \A t \in Threads :
              (pc[t] = "copy" /\ pc'[t] \notin {"copy", "unlink"}) =>
                  /\ src' = src
                  /\ dirs' = dirs
                  /\ last' = [path |-> cur[t].path, outcome |-> "OSError"]
      ]_vars

\* C1 witness: the sweep's copy of show.s02e05.srt failed, the file is still
\* in SourceDir and nothing of it is in the library
C1_Witness ==
    /\ pc["main"] = "crashed"
    /\ cfg = <<Lib1>>
    /\ rootExists[Lib1]
    /\ dirs[Season2] = <<>>
    /\ last = [path |-> SrcA, outcome |-> "OSError"]
    /\ SrcA \in src
    /\ ~ PlacedInLibrary(SrcA)

C3_FileFailureNeverStopsIt ==
    pc["main"] # "crashed" /\ pc["obs"] # "dead"

\* the directories directly under the configured roots whose name contains
\* the title, case-insensitively
ShowEntries(title) ==
    UNION { { <<cfg[i], LibEntries(cfg[i])[j].name>> :
                j \in { k \in 1..Len(LibEntries(cfg[i])) :
                          /\ LibEntries(cfg[i])[k].isdir
                          /\ Contains(Lower(title),
                                      Lower(LibEntries(cfg[i])[k].name)) } } :
            i \in 1..Len(cfg) }

\* the outcome of the latest call, for a path with an episode identity
C4_Holds(info) ==
    (last.path # <<>> /\ info.kind = "ok"
        /\ last.outcome \notin {"ignored", "filtered"})
    => IF Cardinality(ShowEntries(info.title)) = 1
       THEN /\ last.outcome \notin {"skip_no_dir", "skip_ambiguous"}
            /\ last.outcome = "started" =>
                  \E t \in Threads : /\ cur[t].path = last.path
                                     /\ SubSeq(cur[t].dir, 1, 2)
                                           \in ShowEntries(info.title)
       ELSE last.outcome \in {"skip_no_dir", "skip_ambiguous"}

\* C4 (as claimed): with exactly one directory entry under the configured
\* roots whose name contains the title, the call goes on with that directory;
\* with none or several it ends with the skip outcome.
C4_ShowDirectoryLookup == C4_Holds(detect_tv_episode_info(last.path))

\* the names guessit does not classify as an episode
NonEpisodes == { p \in SrcNames : guessit(p).type # "episode" }

\* C5: for a name guessit does not classify as an episode, a call ends as
\* "skip_not_episode" (or is dropped before it by the handler), no call ever
\* gets to copy it, no copy of it is in the library and the program does not
\* remove it.
C5_NonEpisodeUntouched ==
    [][ \A p \in NonEpisodes :
            /\ last'.path = p =>
                  last'.outcome \in {"skip_not_episode", "ignored", "filtered"}
            /\ \A t \in Threads : cur'[t].path # p
            /\ (p \in src /\ p \notin src') => OtherProcessStep
            /\ ~ PlacedInLibrary(p)'
      ]_vars

\* C5 witness: movie.srt was skipped as not an episode and is still there
C5_Witness ==
    /\ last = [path |-> SrcF, outcome |-> "skip_not_episode"]
    /\ SrcF \in src

\* a thread is between the start of a placement and its end
Placing(t) == pc[t] \in {"copy", "unlink"}

\* C6: no two placements are under way at the same time, and the observer's
\* thread handles no event before the sweep is over.
C6_Serialized ==
    /\ ~ (Placing("main") /\ Placing("obs"))
    /\ pc["main"] \in {"load", "check", "sweep", "copy", "unlink"}
          => pc["obs"] = "off"

\* C6 witness: the observer's thread is placing a file after the sweep
\* placed another
C6_Witness ==
    /\ Placing("obs")
    /\ pc["main"] = "sleep"
    /\ \E p \in SrcNames : p # cur["obs"].path /\ PlacedInLibrary(p)

\* C7 (as claimed): the program gets past its start only with a library
\* set that is not empty.
C7_EmptyLibraryRefused ==
    pc["main"] \in {"sweep", "copy", "unlink", "sleep", "exit0", "crashed"}
        => cfg # <<>>

\* the entries of a listing that are videos of the episode of subtitle p
VideosOf(listing, p) ==
    { i \in 1..Len(listing) :
        /\ IsVideo(listing[i].name)
        /\ guessit(listing[i].name).type = "episode"
        /\ guessit(listing[i].name).season = guessit(p).season
        /\ guessit(listing[i].name).episode = guessit(p).episode }

\* C8 (as claimed): a placement into a season directory that holds a video
\* of the subtitle's episode is named after such a video, with the
\* subtitle's own extension, confidence exact.
C8_NamedAfterVideo ==
    \A t \in Threads :
        (Placing(t) /\ VideosOf(dirs[cur[t].dir], cur[t].path) # {}) =>
            /\ cur[t].conf = "exact"
            /\ \E i \in VideosOf(dirs[cur[t].dir], cur[t].path) :
                  cur[t].name = splitext(dirs[cur[t].dir][i].name)[1]
                                   \o splitext(cur[t].path)[2]

\* the entries of a listing guessit classifies as the episode of subtitle p
EpisodesOf(listing, p) ==
    { i \in 1..Len(listing) :
        /\ guessit(listing[i].name).type = "episode"
        /\ guessit(listing[i].name).season = guessit(p).season
        /\ guessit(listing[i].name).episode = guessit(p).episode }

\* the season directory the latest call is about, when it got that far
SeasonDirOf(info) ==
    IF Cardinality(ShowEntries(info.title)) = 1
    THEN { d \in SeasonDirs :
             /\ SubSeq(d, 1, 2) \in ShowEntries(info.title)
             /\ d[3] = SeasonFormat(info.season)
             /\ IsSeasonDir(d) }
    ELSE {}

C9_Holds(p, info) ==
    \A d \in (IF info.kind = "ok" THEN SeasonDirOf(info) ELSE {}) :
        EpisodesOf(dirs[d], p) = {} =>
            /\ last.outcome # "KeyError"
            /\ last.outcome = "started" =>
                  \E t \in Threads :
                      /\ cur[t].path = p
                      /\ cur[t].conf = "fallback"
                      /\ cur[t].dir = d
                      /\ cur[t].name =
                            info.title \o <<" ","-"," ","S">> \o Pad2(info.season)
                              \o <<"E">> \o Pad2(info.episode) \o splitext(p)[2]

\* C9 (as claimed): a call whose season directory holds no entry classified
\* as the subtitle's episode goes on with the fallback name
\* "{title} - S{season:02d}E{episode:02d}" and the subtitle's extension.
C9_FallbackName == C9_Holds(last.path, detect_tv_episode_info(last.path))

\* the part of a name from its last dot on
Suffix(name) == SubSeq(name, LastDot(name), Len(name))

HasSubtitleExt(name) ==
    LastDot(name) > 0 /\ Suffix(name) \in {ExtSrt, ExtSbv, ExtSub}

\* the names whose extension is none of the three
NotSubtitles == { p \in SrcNames : ~ HasSubtitleExt(p) }

\* C10: a path whose extension is not .srt, .sbv or .sub is dropped by the
\* sweep and by the handler before guessit sees it: its call ends as
\* "filtered" (or "ignored", the file being gone), no call gets to copy it,
\* no copy of it is in the library and the program does not remove it.
C10_OnlySubtitleFiles ==
    [][ \A p \in NotSubtitles :
            /\ last'.path = p => last'.outcome \in {"filtered", "ignored"}
            /\ \A t \in Threads : cur'[t].path # p
            /\ (p \in src /\ p \notin src') => OtherProcessStep
            /\ ~ PlacedInLibrary(p)'
      ]_vars

\* C10 witness: show.s02e05.txt was met and dropped, and is still there
C10_Witness ==
    /\ last = [path |-> SrcH, outcome |-> "filtered"]
    /\ SrcH \in src

\* C11 (as claimed): when the file of a call has gone from SourceDir by the
\* time the call gets to copy or to remove it, the call ends without an
\* exception, the thread goes on as after any call, and the library is left
\* as it was.
C11_VanishedFileIgnored ==
    [][ \A t \in Threads :
            (Placing(t) /\ cur[t].path \notin src /\ pc'[t] # pc[t]) =>
                /\ last'.outcome \notin Errors
                /\ pc'[t] = cur[t].ret
                /\ dirs' = dirs
      ]_vars

\* a step that takes up a call of process_subtitle_file, or of the handler,
\* for path p: no placement is under way and the latest outcome becomes p's
CallStep(p) ==
    /\ \A t \in Threads : ~ Placing(t)
    /\ last' # last
    /\ last'.path = p

\* the season directory of an identity under a show directory
SeasonPath(info, show) == Append(show.path, SeasonFormat(info.season))

\* the identity is complete, one show directory was found, and the season
\* path under it is missing or is a regular file
SeasonMissingAt(info, show) ==
    /\ info.kind = "ok"
    /\ show.kind = "ok"
    /\ SeasonPath(info, show) \notin SeasonDirs

SeasonMissingFor(info) ==
    SeasonMissingAt(info, find_show_directory(cfg, info.title))

SeasonMissing(p) == SeasonMissingFor(detect_tv_episode_info(p))

\* C12: a call that gets as far as a season path that is missing or is not
\* a directory ends as "skip_season_missing": no exception, no placement is
\* begun, and SourceDir and the library stay as they were.
C12_SeasonMissingSkipped ==
    [][ \A p \in SrcNames :
            (CallStep(p) /\ last'.outcome \notin {"ignored", "filtered"}
                /\ SeasonMissing(p)) =>
                /\ last'.outcome = "skip_season_missing"
                /\ pc' = pc
                /\ cur' = cur
                /\ src' = src
                /\ dirs' = dirs
      ]_vars

\* C12 witness: other.s01e01.srt was skipped because "/lib2/Other Two" has
\* no "Season 1", and is still in SourceDir
C12_Witness ==
    /\ cfg = <<Lib2>>
    /\ rootExists[Lib2]
    /\ last = [path |-> SrcE, outcome |-> "skip_season_missing"]
    /\ SrcE \in src
    /\ ~ PlacedInLibrary(SrcE)

\* guessit calls the name an episode but leaves out title, season or episode
Incomplete(match) ==
    /\ match.type = "episode"
    /\ ~ (HasKey(match, "title") /\ HasKey(match, "season")
            /\ HasKey(match, "episode"))

\* C13 (as claimed): no call ends in a KeyError, neither on the incoming
\* name nor on an entry of the season directory, and a call for an incoming
\* name with an incomplete identity ends as "skip_not_episode".
C13_IncompleteIdentitySkipped ==
    /\ last.outcome # "KeyError"
    /\ (last.path # <<>> /\ Incomplete(guessit(last.path))) =>
           last.outcome \in {"skip_not_episode", "ignored", "filtered"}

\* the outcome of the step agrees with lookup result r: a skip for none or
\* several matches, otherwise the call goes on past the lookup
LookupAgrees(r) ==
    CASE r.kind = "none"      -> last'.outcome = "skip_no_dir"
      [] r.kind = "ambiguous" -> last'.outcome = "skip_ambiguous"
      [] OTHER -> last'.outcome \in {"skip_season_missing", "started", "KeyError"}

\* the lookup over the configured roots that can still be listed
RemainingLookup(info) == Picked(Matches(valid_tv_dirs(cfg), info.title))

\* C14 (as claimed): a call with a complete identity gets the lookup result
\* of the configured roots that can still be listed; a configured root that
\* was removed after load_config is skipped and raises nothing.
C14_ListingErrorSkipsRoot ==
    [][ \A p \in SrcNames :
            (CallStep(p) /\ last'.outcome \notin {"ignored", "filtered"}
                /\ detect_tv_episode_info(p).kind = "ok") =>
                /\ last'.outcome # "OSError"
                /\ LookupAgrees(RemainingLookup(detect_tv_episode_info(p)))
      ]_vars

\* main has not got to the end of the sweep
BeforeObserver ==
    \/ pc["main"] \in {"load", "check", "sweep", "config_error", "exit1",
                       "crashed"}
    \/ Placing("main")

\* C15: until the sweep has visited every listed file the observer is not
\* started and no event is queued or handled; once it is started the sweep
\* has nothing left; and without SourceDir main returns 1 with no file
\* processed and no observer.
C15_SweepBeforeWatch ==
    /\ BeforeObserver => (pc["obs"] = "off" /\ queue = <<>> /\ arrivals = 0)
    /\ pc["obs"] # "off" => sweepList = <<>>
    /\ (~ sourceDirExists /\ pc["main"] \notin {"load", "check", "config_error"})
           => /\ pc["main"] = "exit1"
              /\ pc["obs"] = "off"
              /\ last = NoOutcome

\* C15 witness: the observer was started after the sweep had placed the one
\* file of SourceDir, and no event has come in yet
C15_Witness ==
    /\ pc["main"] = "sleep"
    /\ pc["obs"] = "idle"
    /\ last.outcome = "placed"
    /\ arrivals = 0
    /\ queue = <<>>
    /\ src = {}

\* the entries of a TVDirs list that exist, one by one in their order
RECURSIVE ExistingInOrder(_)
ExistingInOrder(tv_dirs) ==
    IF tv_dirs = <<>> THEN <<>>
    ELSE (IF rootExists[Head(tv_dirs)] THEN <<Head(tv_dirs)>> ELSE <<>>)
            \o ExistingInOrder(Tail(tv_dirs))

\* C16: with a TVDirs key that is not empty, load_config returns the entries
\* that exist at that time, in their configured order, raises nothing for
\* the ones it drops, and main goes on to its next step.
C16_LoadKeepsExistingInOrder ==
    [][ (pc["main"] = "load" /\ pc'["main"] # "load" /\ tvDirsCfg # <<>>) =>
            /\ cfg' = ExistingInOrder(tvDirsCfg)
            /\ pc'["main"] = "check"
      ]_vars

\* C16 witness: TVDirs=/lib1,/lib2 with /lib1 missing was loaded as /lib2
\* alone, and main went on to the sweep
C16_Witness ==
    /\ tvDirsCfg = <<Lib1, Lib2>>
    /\ ~ rootExists[Lib1]
    /\ rootExists[Lib2]
    /\ cfg = <<Lib2>>
    /\ pc["main"] = "sweep"

\* the season directory a call for p gets to scan, as a set of none or one
ScannedDirAt(info, show) ==
    IF info.kind = "ok" /\ show.kind = "ok"
          /\ IsSeasonDir(SeasonPath(info, show))
    THEN {SeasonPath(info, show)}
    ELSE {}

ScannedDirFor(info) ==
    ScannedDirAt(info, find_show_directory(cfg, info.title))

ScannedDir(p) == ScannedDirFor(detect_tv_episode_info(p))

\* the call begun for p is named after the first entry of d that is p's
\* episode, confidence exact; and it has the fallback name only when d has
\* no such entry
FirstMatchTaken(p, d) ==
    /\ EpisodesOf(dirs[d], p) # {} =>
          /\ last'.outcome = "started"
          /\ \E t \in Threads :
                /\ cur'[t].path = p
                /\ cur'[t].conf = "exact"
                /\ cur'[t].name =
                      splitext(dirs[d][FirstOf(EpisodesOf(dirs[d], p))].name)[1]
                         \o splitext(p)[2]
    /\ (\E t \in Threads : cur'[t].path = p /\ cur'[t].conf = "fallback") =>
          EpisodesOf(dirs[d], p) = {}

\* C17 (as claimed): a call that gets to scan its season directory goes on
\* with the first entry, in listing order, that guessit classifies as the
\* subtitle's episode, whether or not other entries match too, and with the
\* fallback name only when no entry does.
C17_FirstMatchInListingOrder ==
    [][ \A p \in SrcNames :
            (CallStep(p) /\ last'.outcome \notin {"ignored", "filtered"}) =>
                \A d \in ScannedDir(p) : FirstMatchTaken(p, d)
      ]_vars

\* the target of call c is a file directly inside the season directory of
\* the subtitle's season, under a show directory whose name contains its
\* title, and carries the subtitle's own extension
TargetWellPlaced(c, info) ==
    /\ c.dir \in SeasonDirs
    /\ c.dir[3] = SeasonFormat(info.season)
    /\ Contains(Lower(info.title), Lower(c.dir[2]))
    /\ splitext(c.name)[2] = splitext(c.path)[2]

\* the file call c is to write lies at its target after the step
HasCopyAfter(c) ==
    \E i \in 1..Len(dirs'[c.dir]) :
        dirs'[c.dir][i] = [name |-> c.name, content |-> c.path]

\* C18: a copy step that succeeds leaves a file with the source's content at
\* the target; and when the call then ends, the source path is gone from
\* SourceDir, the target is directly inside the season directory with the
\* source's extension, and (unless another process has removed the library
\* root meanwhile) it still holds the source's content.
C18_PlacedPostcondition ==
    [][ \A t \in Threads :
            /\ (pc[t] = "copy" /\ pc'[t] = "unlink") => HasCopyAfter(cur[t])
            /\ (pc[t] = "unlink" /\ pc'[t] # "unlink") =>
                  /\ cur[t].path \notin src'
                  /\ TargetWellPlaced(cur[t],
                                      detect_tv_episode_info(cur[t].path))
                  /\ rootExists[cur[t].dir[1]] => HasCopyAfter(cur[t])
      ]_vars

\* C18 witness: show.s02e05.srt was placed beside the video as
\* "Show - S02E05.srt" and is gone from SourceDir
C18_Witness ==
    /\ last = [path |-> SrcA, outcome |-> "placed"]
    /\ SrcA \notin src
    /\ \E i \in 1..Len(dirs[Season2]) :
          dirs[Season2][i] = [name    |-> SShow \o SDash \o SS02E05 \o ExtSrt,
                              content |-> SrcA]
    /\ \E i \in 1..Len(dirs[Season2]) : dirs[Season2][i] = Entry(VidE5)

\* the entries of a listing other than the one called name, in their order
Others(listing, name) ==
    LET other(e) == e.name # name
    IN  SelectSeq(listing, other)

\* a step of the program that changes the library is the copy step of a
\* call: it changes one season directory, which is there already, and in it
\* the one entry at the call's target, a file with a subtitle extension
\* that holds the source's content; every other entry stays as it is
OnlyTargetWritten(t) ==
    /\ pc[t] = "copy"
    /\ cur[t].dir \in SeasonDirs
    /\ rootExists[cur[t].dir[1]]
    /\ HasSubtitleExt(cur[t].name)
    /\ HasCopyAfter(cur[t])
    /\ Others(dirs'[cur[t].dir], cur[t].name)
          = Others(dirs[cur[t].dir], cur[t].name)
    /\ \A d \in SeasonDirs \ {cur[t].dir} : dirs'[d] = dirs[d]

\* a step of the program that changes SourceDir is the unlink step of a
\* call, and removes the source file of that call alone
OnlySourceRemoved(t) ==
    /\ pc[t] = "unlink"
    /\ src' = src \ {cur[t].path}

\* C19: whatever the program does to the file system is one of the two: it
\* writes the subtitle at the target of a call, inside a season directory
\* that exists, or it removes the source file of a call after its copy.  It
\* creates no directory, and no video and no other entry is created,
\* renamed, changed or removed.
C19_Frame ==
    [][ OtherProcessStep \/
            /\ DOMAIN dirs' = DOMAIN dirs
            /\ rootExists' = rootExists
            /\ sourceDirExists' = sourceDirExists
            /\ dirs' # dirs => \E t \in Threads : OnlyTargetWritten(t)
            /\ src' # src => \E t \in Threads : OnlySourceRemoved(t)
      ]_vars

\* C19 witness: the subtitle of episode 5 was placed into a season
\* directory that held two videos; both are as they were, in their order
C19_Witness ==
    /\ last.outcome = "placed"
    /\ Len(dirs[Season2]) = 3
    /\ Others(dirs[Season2], SShow \o SDash \o SS02E05 \o ExtSrt)
          = <<Entry(VidE6), Entry(VidE5)>>

\* pairs of different source names with the same extension that guessit
\* gives the same season and episode
Twins ==
    { pq \in SrcNames \X SrcNames :
        /\ pq[1] # pq[2]
        /\ detect_tv_episode_info(pq[1]).kind = "ok"
        /\ detect_tv_episode_info(pq[2]).kind = "ok"
        /\ detect_tv_episode_info(pq[1]).season
              = detect_tv_episode_info(pq[2]).season
        /\ detect_tv_episode_info(pq[1]).episode
              = detect_tv_episode_info(pq[2]).episode
        /\ splitext(pq[1])[2] = splitext(pq[2])[2] }

\* the copy step of call c that succeeds: a twin of c's source that was
\* placed in the same season directory lies at c's very target; the file at
\* the target is overwritten without a test, the directory gaining no
\* entry; afterwards the target holds c's source and nothing of the twin is
\* left in the directory
Overwrites(c) ==
    /\ \A i \in 1..Len(dirs[c.dir]) :
          <<c.path, dirs[c.dir][i].content>> \in Twins
              => dirs[c.dir][i].name = c.name
    /\ (\E i \in 1..Len(dirs[c.dir]) : dirs[c.dir][i].name = c.name)
          => Len(dirs'[c.dir]) = Len(dirs[c.dir])
    /\ HasCopyAfter(c)
    /\ \A i \in 1..Len(dirs'[c.dir]) :
          <<c.path, dirs'[c.dir][i].content>> \notin Twins

\* C20: a subtitle placed after another of the same show, season, episode
\* and extension goes to the same target and replaces it: no copy step
\* tests for a file at the target, after it the target holds the source
\* placed last, and the unlink step removes that source too.
C20_LastPlacedWins ==
    [][ \A t \in Threads :
            /\ (pc[t] = "copy" /\ pc'[t] = "unlink") => Overwrites(cur[t])
            /\ (pc[t] = "unlink" /\ pc'[t] # "unlink") =>
                  cur[t].path \notin src'
      ]_vars

\* C20 witness: show.s02e05.srt was placed by the sweep and is gone from
\* SourceDir; Show.S02E05.srt arrived and its call is about to copy to the
\* very file that holds the content of show.s02e05.srt
C20_Witness ==
    /\ pc["obs"] = "copy"
    /\ cur["obs"].path = SrcB
    /\ SrcB \in src
    /\ SrcA \notin src
    /\ \E i \in 1..Len(dirs[cur["obs"].dir]) :
          dirs[cur["obs"].dir][i] = [name |-> cur["obs"].name, content |-> SrcA]

====
